---------------------------- MODULE Spec2Model ----------------------------
(***************************************************************************)
(* PlacePort stats engine (src/server.js): the StateManagement class, the  *)
(* saveAllImageStats middleware that records a served image request, and   *)
(* the /stats handlers that query, compact and clear the six collections.  *)
(*                                                                         *)
(* Time is counted in seconds; the clock of the model advances in ticks of  *)
(* five seconds, the step of the 5/10/15 s windows of sendSecondHits.      *)
(***************************************************************************)
EXTENDS Integers, Sequences, FiniteSets, TLC

(***************************************************************************)
(* Bounds of the model.                                                    *)
(***************************************************************************)
\* The persistAmount saveAllImageStats passes for the five bounded
\* collections.  The source passes 10 (server.js:711-717); addArrayEntry and
\* addArrayCountEntry take it as a parameter, and the model runs them with a
\* smaller capacity so that eviction is reached within MaxRequests requests.
PersistAmount == 2
\* Image requests that reach saveAllImageStats in one behaviour.
MaxRequests == 4
\* Last clock tick of a behaviour.
MaxTime == 2
\* Ticks the clock may advance between the two `new Date()` of sendSecondHits.
MaxSkew == 1
\* Image requests and last clock tick of a behaviour of the server that
\* persists to files.
MaxDurableRequests == 3
MaxDurableTime == 1
\* Image requests that pass the validation and last clock tick of a
\* behaviour of the image routes.
MaxRouteRequests == 2
MaxRouteTime == 1

(***************************************************************************)
(* JavaScript values, tagged with their typeof.                            *)
(***************************************************************************)
Undefined == [type |-> "undefined"]
Null == [type |-> "null"]
Str(s) == [type |-> "string", val |-> s]
Num(n) == [type |-> "number", val |-> n]
\* The object literal { w: width, h: height } of saveAllImageStats.
Size(w, h) == [type |-> "object", w |-> w, h |-> h]
\* An array of strings, as the query parser builds for ?text=a&text=b.
Arr(items) == [type |-> "array", items |-> items]

isNil(value) == value.type \in {"undefined", "null"}

\* escape() on the texts of the model: every character of them is left as it
\* is except the space, which becomes %20, and the comma that joins the
\* elements of an array coerced to a string, which becomes %2C.
escapeString(s) ==
  CASE s = "a b" -> "a%20b"
    [] s = "Turn your boom into wisdom." -> "Turn%20your%20boom%20into%20wisdom."
    [] OTHER -> s

RECURSIVE joinEscaped(_)
joinEscaped(items) ==
  IF items = <<>> THEN ""
  ELSE IF Len(items) = 1 THEN escapeString(items[1])
  ELSE escapeString(items[1]) \o "%2C" \o joinEscaped(Tail(items))

escape(value) ==
  IF value.type = "array" THEN joinEscaped(value.items)
  ELSE IF value.type = "number" THEN ToString(value.val)
  ELSE escapeString(value.val)

\* JSON.stringify of an entry value (a string, a {w, h} object, an array).
RECURSIVE stringifyItems(_)
stringifyItems(items) ==
  IF items = <<>> THEN ""
  ELSE IF Len(items) = 1 THEN "\"" \o items[1] \o "\""
  ELSE "\"" \o items[1] \o "\"," \o stringifyItems(Tail(items))

JSONstringify(value) ==
  CASE value.type = "string" -> "\"" \o value.val \o "\""
    [] value.type = "number" -> ToString(value.val)
    [] value.type = "object" ->
         "{\"w\":" \o ToString(value.w) \o ",\"h\":" \o ToString(value.h) \o "}"
    [] value.type = "array" -> "[" \o stringifyItems(value.items) \o "]"
    [] OTHER -> "null"

(***************************************************************************)
(* Array.prototype.sort.  The comparators of the source are named; each    *)
(* returns the number the engine sees (a boolean result is coerced to 1 or *)
(* 0).                                                                     *)
(***************************************************************************)
compare(cmp, a, b) ==
  CASE cmp = "timeDescending" -> b.time - a.time
    [] cmp = "countThenTimeDescending" ->
         IF a.count = b.count THEN b.time - a.time ELSE b.count - a.count
    [] cmp = "timeLessThan" -> IF a.time < b.time THEN 1 ELSE 0
    [] cmp = "countLessThan" -> IF a.count < b.count THEN 1 ELSE 0

Max(S) == CHOOSE m \in S : \A o \in S : o <= m

\* V8 before 7.0 (Node <= 10), arrays of at most 10 elements: the straight
\* insertion sort of array.js.  Each element moves left past every
\* neighbour tmp with comparefn(tmp, element) > 0.
InsertLegacy(cmp, sorted, element) ==
  LET stops == {j \in 1..Len(sorted) : compare(cmp, sorted[j], element) <= 0}
      p == IF stops = {} THEN 0 ELSE Max(stops)
  IN SubSeq(sorted, 1, p) \o <<element>> \o SubSeq(sorted, p + 1, Len(sorted))

RECURSIVE InsertionSortFrom(_, _, _)
InsertionSortFrom(cmp, arr, i) ==
  IF i > Len(arr) THEN arr
  ELSE InsertionSortFrom(cmp,
         InsertLegacy(cmp, SubSeq(arr, 1, i - 1), arr[i])
           \o SubSeq(arr, i + 1, Len(arr)),
         i + 1)

InsertionSort(cmp, arr) == InsertionSortFrom(cmp, arr, 2)

\* V8 from 7.0 on (Node >= 11): TimSort (third_party/v8/builtins/
\* array-sort.tq).  Below 64 elements the minimum run length is the array
\* length, so the sort is CountAndMakeRun on the whole array followed by a
\* binary insertion of the elements after the first run.
RECURSIVE RunLength(_, _, _, _)
RunLength(cmp, arr, idx, isDescending) ==
  IF idx > Len(arr) THEN idx - 1
  ELSE LET order == compare(cmp, arr[idx], arr[idx - 1])
       IN IF isDescending /\ order >= 0 THEN idx - 1
          ELSE IF ~isDescending /\ order < 0 THEN idx - 1
          ELSE RunLength(cmp, arr, idx + 1, isDescending)

Reverse(s) == [i \in 1..Len(s) |-> s[Len(s) + 1 - i]]

\* The array after CountAndMakeRun, and the length of its first run.
CountAndMakeRun(cmp, arr) ==
  IF Len(arr) < 2 THEN [arr |-> arr, run |-> Len(arr)]
  ELSE LET isDescending == compare(cmp, arr[2], arr[1]) < 0
           run == RunLength(cmp, arr, 3, isDescending)
       IN [arr |-> IF isDescending
                   THEN Reverse(SubSeq(arr, 1, run)) \o SubSeq(arr, run + 1, Len(arr))
                   ELSE arr,
           run |-> run]

\* The binary search of BinaryInsertionSort over the 1-based positions
\* left..right-1 of arr: where pivot is to be inserted.
RECURSIVE BinarySearch(_, _, _, _, _)
BinarySearch(cmp, arr, pivot, left, right) ==
  IF left >= right THEN left
  ELSE LET mid == left + ((right - left) \div 2)
       IN IF compare(cmp, pivot, arr[mid]) < 0
          THEN BinarySearch(cmp, arr, pivot, left, mid)
          ELSE BinarySearch(cmp, arr, pivot, mid + 1, right)

RECURSIVE BinaryInsertionSort(_, _, _)
BinaryInsertionSort(cmp, arr, start) ==
  IF start > Len(arr) THEN arr
  ELSE LET pivot == arr[start]
           left == BinarySearch(cmp, arr, pivot, 1, start)
       IN BinaryInsertionSort(cmp,
            SubSeq(arr, 1, left - 1) \o <<pivot>> \o SubSeq(arr, left, start - 1)
              \o SubSeq(arr, start + 1, Len(arr)),
            start + 1)

\* The rest of the sort once CountAndMakeRun has made the first run.
sortAfterRun(cmp, made) ==
  IF made.run >= Len(made.arr) THEN made.arr
  ELSE BinaryInsertionSort(cmp, made.arr, made.run + 1)

TimSort(cmp, arr) == sortAfterRun(cmp, CountAndMakeRun(cmp, arr))

(***************************************************************************)
(* State.                                                                  *)
(***************************************************************************)
VARIABLES
  engine,            \* the sort of the JavaScript engine the server runs on
  filePersistance,   \* StateManagement.filePersistance
  localPersistance,  \* StateManagement.localPersistance: name -> array
  files,             \* the <location>/<name>.json files: name -> JSON text
  now,               \* the clock Date.now() and new Date() read
  requests,          \* image requests that reached saveAllImageStats
  popped,            \* name -> what content.pop() removed in the last request
  inserted,          \* history: name -> JSON of an entry -> times recorded
                     \* since the start or the last clear
  sinceAbsent,       \* history: the same, counted since the entry was last
                     \* absent from the collection
  inFlight,          \* requests whose sendImagerModule awaits the image
  delivered          \* requests whose image was sent to the end

vars == <<engine, filePersistance, localPersistance, files, now, requests,
          popped, inserted, sinceAbsent, inFlight, delivered>>

\* constants.FILE_PERSISTANCE
FILE_PERSISTANCE == FALSE

\* "timsort": V8 from 7.0 on, every Node release since 11.
\* "insertion": V8 before 7.0, Node 10 and older.
Engines == {"insertion", "timsort"}

\* content.sort(comparefn) on the engine of this behaviour.
ArraySort(cmp, arr) ==
  IF engine = "insertion" THEN InsertionSort(cmp, arr)
  ELSE TimSort(cmp, arr)

HITS == "hits"
PATHS == "paths"
TEXTS == "texts"
SIZES == "sizes"
SIZES_ALL == "sizes-all"
REFERENCES == "references"

\* The five collections saveAllImageStats records with a persistAmount.
BoundedNames == {PATHS, TEXTS, SIZES, SIZES_ALL, REFERENCES}
\* Those it records through addArrayEntry: the last-touched one survives.
RecencyNames == {PATHS, TEXTS, SIZES}
\* Those it records through addArrayCountEntry: the most counted survives.
FrequencyNames == {SIZES_ALL, REFERENCES}
AllNames == BoundedNames \cup {HITS}

(***************************************************************************)
(* Image requests as they reach saveAllImageStats: req.params.width and    *)
(* height are numbers, req.query.square is a number or undefined,          *)
(* req.query.text whatever the query parser made of ?text=, and the        *)
(* Referer header a string or undefined.                                   *)
(***************************************************************************)
Request(width, height, square, text, referer) ==
  [width |-> width, height |-> height, square |-> square, text |-> text,
   referer |-> referer]

Requests ==
  { Request(1, 1, Undefined, Str("a"), Str("x")),
    Request(1, 2, Num(1), Str("a b"), Str("y")),
    Request(2, 1, Undefined, Str(""), Undefined) }

\* The path saveAllImageStats builds (req.baseUrl is "/img").
pathOf(req) ==
  LET base == "/img" \o "/" \o ToString(req.width) \o "/" \o ToString(req.height)
      withSquare ==
        IF ~isNil(req.square)
        THEN base \o "?square=" \o ToString(req.square.val)
               \o (IF isNil(req.text) THEN "" ELSE "&text=" \o escape(req.text))
        ELSE base
  IN IF isNil(req.square) /\ ~isNil(req.text)
     THEN withSquare \o "?text=" \o escape(req.text)
     ELSE withSquare

\* Every value a request of the model can record as an entry.
EntryValues ==
  UNION { {Str(pathOf(r)), r.text, Size(r.width, r.height), r.referer} :
          r \in Requests }

(***************************************************************************)
(* The JSON files.  A file holds the array as JSON.stringify wrote it: one *)
(* element per record, the entry as its JSON text, time and count as the   *)
(* integers they are; JSON.parse reads the entry values back from the      *)
(* text.                                                                   *)
(***************************************************************************)
JSONstringifyEntries(entries) ==
  [i \in 1..Len(entries) |->
     [entry |-> JSONstringify(entries[i].entry),
      time |-> entries[i].time,
      count |-> entries[i].count]]

JSONparseEntries(text) ==
  [i \in 1..Len(text) |->
     [entry |-> CHOOSE v \in EntryValues : JSONstringify(v) = text[i].entry,
      time |-> text[i].time,
      count |-> text[i].count]]

(***************************************************************************)
(* StateManagement.  A store value st is [local, files]: the object's      *)
(* localPersistance and the files under its location.  Each method yields  *)
(* the store it leaves behind.                                             *)
(***************************************************************************)
Store == [local |-> localPersistance, files |-> files]

\* _canAdd: "true", "false", or "throws" (the reference to the undeclared `a`
\* is reached whenever the entry is an array).
canAdd(entry) ==
  IF isNil(entry) THEN "false"
  ELSE IF entry.type = "string" /\ entry.val = "" THEN "false"
  ELSE IF entry.type = "array" THEN "throws"
  ELSE "true"

\* A write that replaces the whole of localPersistance by the one array.
writeArrayEntries_OnlyThisName(st, name, entries) ==
  [local |-> (name :> entries),
   files |-> IF filePersistance
             THEN (name :> JSONstringifyEntries(entries)) @@ st.files
             ELSE st.files]

\* A write that stays in memory.
writeArrayEntries_MemoryOnly(st, name, entries) ==
  [local |-> (name :> entries) @@ st.local, files |-> st.files]

\* writeArrayEntries
writeArrayEntries(st, name, entries) ==
  [local |-> (name :> entries) @@ st.local,
   files |-> IF filePersistance
             THEN (name :> JSONstringifyEntries(entries)) @@ st.files
             ELSE st.files]

\* A store that never looks at its files.
readsFile_Never(st, name) == FALSE

\* What fs.writeFileSync leaves when it throws: nothing of the file is
\* touched when the file cannot be opened, and a file opened for writing and
\* not written to the end holds no JSON array any more.
Truncated == << [truncated |-> TRUE] >>
WriteFailures == {"not opened", "not written"}

\* writeArrayEntries when fs.writeFileSync throws: the assignment to
\* localPersistance is not reached.
writeArrayEntriesFails(st, name, failure) ==
  [local |-> st.local,
   files |-> IF failure = "not written" THEN (name :> Truncated) @@ st.files
             ELSE st.files]

\* JSON.parse of getArrayEntries throws on a truncated file.
parses(st, name) ==
  IF name \in DOMAIN st.files THEN st.files[name] # Truncated ELSE TRUE

\* getArrayEntries, the content it starts from: the file when persisting and
\* the file exists, else localPersistance[name] || [].
readsFile(st, name) == filePersistance /\ name \in DOMAIN st.files

content(st, name) ==
  IF readsFile(st, name) THEN JSONparseEntries(st.files[name])
  ELSE IF name \in DOMAIN st.local THEN st.local[name]
  ELSE <<>>

mapEntries(entries) == [i \in 1..Len(entries) |-> entries[i].entry]

\* What a sort of the array getArrayEntries read leaves in the store: sort
\* works in place, so the array of localPersistance is the one reordered
\* when that is the one read.
sortedInPlace(st, name, sorted) ==
  IF ~readsFile(st, name) /\ name \in DOMAIN st.local
  THEN [st EXCEPT !.local[name] = sorted]
  ELSE st

returned(st, name, map, ordered) ==
  [value |-> IF map THEN mapEntries(ordered) ELSE ordered,
   st |-> sortedInPlace(st, name, ordered)]

\* getArrayEntries: the value returned and the store left behind.
getArrayEntries(st, name, map, order) ==
  returned(st, name, map,
           IF order THEN ArraySort("timeLessThan", content(st, name))
           ELSE content(st, name))

\* removeArrayEntries
removeArrayEntries(st, name) == writeArrayEntries(st, name, <<>>)

\* An increment that refreshes the time and forgets the count.
incrementEntry_TimeOnly(record, t) == [record EXCEPT !.time = t]

\* An increment that sets the count to 1 (`= +1` for `+= 1`).
incrementEntry_CountOne(record, t) == [record EXCEPT !.time = t, !.count = 1]

\* An increment that counts and leaves the time as it was.
incrementEntry_CountOnly(record, t) == [record EXCEPT !.count = @ + 1]

\* _incrementEntry
incrementEntry(record, t) == [record EXCEPT !.time = t, !.count = @ + 1]

\* A comparison by identity instead: two strings compare by value, two
\* objects are never the same object.
matching_ByIdentity(entries, entry) ==
  {i \in 1..Len(entries) :
     entries[i].entry.type = "string" /\ entries[i].entry = entry}

\* The records _incrementIfExists compares equal to the entry.
matching(entries, entry) ==
  {i \in 1..Len(entries) : JSONstringify(entries[i].entry) = JSONstringify(entry)}

Min(S) == CHOOSE m \in S : \A o \in S : m <= o

\* _incrementIfExists: whether an entry was incremented, and the content.
incrementIfExists(entries, entry, t) ==
  IF matching(entries, entry) = {} THEN [found |-> FALSE, content |-> entries]
  ELSE [found |-> TRUE,
        content |-> [entries EXCEPT ![Min(matching(entries, entry))] =
                                      incrementEntry(@, t)]]

\* `!increment || !this._incrementIfExists(content, entry)`, then the push.
pushUnless(merged, entry, t) ==
  IF merged.found THEN merged.content
  ELSE Append(merged.content, [entry |-> entry, time |-> t, count |-> 1])

\* The push that ignores the increment flag and merges whenever it can.
incrementOrPush_AlwaysMerging(entries, entry, increment, t) ==
  pushUnless(incrementIfExists(entries, entry, t), entry, t)

incrementOrPush(entries, entry, increment, t) ==
  pushUnless(IF increment THEN incrementIfExists(entries, entry, t)
             ELSE [found |-> FALSE, content |-> entries],
             entry, t)

\* The capacity test off by one.
overCapacity_OffByOne(entries, persistAmount) ==
  ~isNil(persistAmount) /\ Len(entries) > persistAmount.val + 1

\* `!isNil(persistAmount) && content.length > persistAmount`
overCapacity(entries, persistAmount) ==
  ~isNil(persistAmount) /\ Len(entries) > persistAmount.val

\* content.pop(): what is left and what pop returned.
pop(sorted) ==
  [content |-> SubSeq(sorted, 1, Len(sorted) - 1),
   popped |-> <<sorted[Len(sorted)]>>]

\* The sort of addArrayEntry in ascending order: pop takes the newest.
popOldest_Ascending(entries) == pop(Reverse(ArraySort("timeDescending", entries)))

\* The sort and pop of addArrayEntry.
popOldest(entries) == pop(ArraySort("timeDescending", entries))

\* addArrayCountEntry with the sort of addArrayEntry: the counts are ignored.
popLeastCounted_ByTime(entries) == pop(ArraySort("timeDescending", entries))

\* The sort of addArrayCountEntry in ascending order: pop takes the most
\* counted.
popLeastCounted_Ascending(entries) ==
  pop(Reverse(ArraySort("countThenTimeDescending", entries)))

\* The sort and pop of addArrayCountEntry.
popLeastCounted(entries) == pop(ArraySort("countThenTimeDescending", entries))

kept(entries) == [content |-> entries, popped |-> <<>>]

\* The write that ends addArrayEntry and addArrayCountEntry.
written(st, name, reduced) ==
  [st |-> writeArrayEntries(st, name, reduced.content),
   popped |-> reduced.popped, added |-> TRUE, threw |-> FALSE]

\* The early return of both, and the throw of _canAdd.
notAdded(st, can) ==
  [st |-> st, popped |-> <<>>, added |-> FALSE, threw |-> can = "throws"]

reduceByTime(entries, persistAmount) ==
  IF overCapacity(entries, persistAmount) THEN popOldest(entries)
  ELSE kept(entries)

reduceByCount(entries, persistAmount) ==
  IF overCapacity(entries, persistAmount) THEN popLeastCounted(entries)
  ELSE kept(entries)

\* addArrayEntry at Date.now() = t
addArrayEntry(st, name, entry, persistAmount, increment, t) ==
  IF canAdd(entry) # "true" THEN notAdded(st, canAdd(entry))
  ELSE written(st, name,
         reduceByTime(
           incrementOrPush(getArrayEntries(st, name, FALSE, FALSE).value,
                           entry, increment, t),
           persistAmount))

\* addArrayCountEntry at Date.now() = t
addArrayCountEntry(st, name, entry, persistAmount, increment, t) ==
  IF canAdd(entry) # "true" THEN notAdded(st, canAdd(entry))
  ELSE written(st, name,
         reduceByCount(
           incrementOrPush(getArrayEntries(st, name, FALSE, FALSE).value,
                           entry, increment, t),
           persistAmount))

(***************************************************************************)
(* The handlers.                                                           *)
(***************************************************************************)
\* One `adjusted.setSeconds(adjusted.getSeconds() - 5)` of sendSecondHits.
WindowStep == 5

\* The calls of saveAllImageStats in their order: the collection, the entry,
\* the persistAmount, the increment flag, and whether the call is
\* addArrayCountEntry.  The call on references is made for a Referer that is
\* neither nil nor ''.
Call(name, entry, persistAmount, increment, byCount) ==
  [name |-> name, entry |-> entry, persistAmount |-> persistAmount,
   increment |-> increment, byCount |-> byCount]

callsFor(path, text, size, reference) ==
  << Call(HITS, path, Null, FALSE, FALSE),
     Call(PATHS, path, Num(PersistAmount), TRUE, FALSE),
     Call(TEXTS, text, Num(PersistAmount), TRUE, FALSE),
     Call(SIZES, size, Num(PersistAmount), TRUE, FALSE),
     Call(SIZES_ALL, size, Num(PersistAmount), TRUE, TRUE) >>
  \o (IF ~isNil(reference) /\ reference # Str("")
      THEN << Call(REFERENCES, reference, Num(PersistAmount), TRUE, TRUE) >>
      ELSE << >>)

calls(req) ==
  callsFor(Str(pathOf(req)), req.text, Size(req.width, req.height), req.referer)

\* One call on the store.
perform(st, call, t) ==
  IF call.byCount
  THEN addArrayCountEntry(st, call.name, call.entry, call.persistAmount,
                          call.increment, t)
  ELSE addArrayEntry(st, call.name, call.entry, call.persistAmount,
                     call.increment, t)

\* What the handler has done so far: the store, whether a call threw, what
\* each collection popped, and the calls that recorded their entry.
started(st) == [st |-> st, threw |-> FALSE, popped |-> <<>>, added |-> <<>>]

after(sofar, call, result) ==
  [st |-> result.st,
   threw |-> result.threw,
   popped |-> IF result.popped # <<>>
              THEN (call.name :> result.popped) @@ sofar.popped
              ELSE sofar.popped,
   added |-> IF result.added THEN Append(sofar.added, call) ELSE sofar.added]

\* The calls one after the other; a throw ends the handler where it happens
\* and what was written stays written.
RECURSIVE performAll(_, _, _)
performAll(sofar, todo, t) ==
  IF todo = <<>> \/ sofar.threw THEN sofar
  ELSE performAll(after(sofar, Head(todo), perform(sofar.st, Head(todo), t)),
                  Tail(todo), t)

\* saveAllImageStats at Date.now() = t
saveAllImageStats(st, req, t) == performAll(started(st), calls(req), t)

\* A recent query that removes what it has sent.
sendRecent_Removing(st, name) ==
  [value |-> getArrayEntries(st, name, TRUE, TRUE).value,
   st |-> removeArrayEntries(st, name)]

\* sendRecentTexts, sendRecentPaths, sendRecentSizes: res.json of the
\* entries, and the store left behind.
sendRecent(st, name) == getArrayEntries(st, name, TRUE, TRUE)

\* sendTopSizes and sendTopReferences up to the projection: the records in
\* the order sent, and the store left behind (sort works in place on the
\* array getArrayEntries returned).
sortedByCount(st, name, sorted) ==
  [value |-> sorted, st |-> sortedInPlace(st, name, sorted)]

sendTop(st, name) ==
  sortedByCount(st, name,
    ArraySort("countLessThan", getArrayEntries(st, name, FALSE, FALSE).value))

\* The body sendTopSizes sends: { n: count, w, h } per record.
topSizesBody(records) ==
  [i \in 1..Len(records) |->
     [n |-> records[i].count, w |-> records[i].entry.w, h |-> records[i].entry.h]]

\* The body sendTopReferences sends: { ref: entry, n: count } per record.
topReferencesBody(records) ==
  [i \in 1..Len(records) |-> [ref |-> records[i].entry, n |-> records[i].count]]

\* The filter of sendSecondHits for the window that starts at `adjusted`.
inWindow(all, adjusted, current) ==
  SelectSeq(all, LAMBDA x : x.time > adjusted /\ x.time < current)

hitCount(title, filtered) == [title |-> title, count |-> Len(filtered)]

\* The three filters of sendSecondHits over `all`, `adjusted` moved back one
\* step before each.
windows(all, adjusted, current) ==
  << inWindow(all, adjusted - WindowStep, current),
     inWindow(all, adjusted - 2 * WindowStep, current),
     inWindow(all, adjusted - 3 * WindowStep, current) >>

\* A compaction that keeps the ten-second window.
counted_KeepingTenSeconds(st, filtered) ==
  [value |-> << hitCount("5s", filtered[1]), hitCount("10s", filtered[2]),
                hitCount("15s", filtered[3]) >>,
   st |-> writeArrayEntries(st, HITS, filtered[2])]

counted(st, filtered) ==
  [value |-> << hitCount("5s", filtered[1]), hitCount("10s", filtered[2]),
                hitCount("15s", filtered[3]) >>,
   st |-> writeArrayEntries(st, HITS, filtered[3])]

secondHitsOf(got, adjusted, current) ==
  counted(got.st, windows(got.value, adjusted, current))

\* sendSecondHits with `adjusted` read at first and `current` at
\* second: the three counts sent and the store left behind.
sendSecondHits(st, first, second) ==
  secondHitsOf(getArrayEntries(st, HITS, FALSE, TRUE), first, second)

\* clearAllStats without its last call.
ClearedNames_WithoutReferences == <<HITS, PATHS, TEXTS, SIZES, SIZES_ALL>>

\* The names clearAllStats removes, in its order.
ClearedNames == <<HITS, PATHS, TEXTS, SIZES, SIZES_ALL, REFERENCES>>

RECURSIVE removeAll(_, _)
removeAll(st, names) ==
  IF names = <<>> THEN st
  ELSE removeAll(removeArrayEntries(st, Head(names)), Tail(names))

\* clearAllStats
clearAllStats(st) == removeAll(st, ClearedNames)

(***************************************************************************)
(* History of the record operations, kept for the properties.              *)
(***************************************************************************)
countOf(bag, key) == IF key \in DOMAIN bag THEN bag[key] ELSE 0

noHistory == [name \in BoundedNames |-> <<>>]
nothingPopped == [name \in BoundedNames |-> <<>>]

\* One more recording of each entry a bounded collection took.
RECURSIVE recorded(_, _)
recorded(history, added) ==
  IF added = <<>> THEN history
  ELSE IF Head(added).name \notin BoundedNames
       THEN recorded(history, Tail(added))
       ELSE recorded(
              [history EXCEPT ![Head(added).name] =
                 (JSONstringify(Head(added).entry)
                    :> countOf(@, JSONstringify(Head(added).entry)) + 1) @@ @],
              Tail(added))

\* What content.pop() returned per bounded collection, <<>> where no pop.
poppedBy(saved) ==
  [name \in BoundedNames |->
     IF name \in DOMAIN saved.popped THEN saved.popped[name] ELSE <<>>]

\* The entries the request popped are absent again.
forgotten(history, pops) ==
  [name \in BoundedNames |->
     IF pops[name] # <<>>
     THEN (JSONstringify(pops[name][1].entry) :> 0) @@ history[name]
     ELSE history[name]]

(***************************************************************************)
(* The image routes, from the request as express hands it over to the call *)
(* of saveAllImageStats.  Route parameters and query values arrive as      *)
(* strings (or are undefined); the numbers of JavaScript that the          *)
(* validation meets are the integers, NaN, and n + 0.5 for a number that   *)
(* is no integer.                                                          *)
(***************************************************************************)
GRID_MAX == 2000
GRID_MIN == 1
SQUARE_MIN == 1
AMOUNT_MIN == 2
AMOUNT_MAX == 2000
BAD_REQUEST == 400
FORBIDDEN == 403
OK == 200

NaN == [type |-> "number", nan |-> TRUE]
Frac(n) == [type |-> "number", floor |-> n]

\* Number(s) for the strings of the model: "0x2" is a hexadecimal literal,
\* the empty string is 0, anything else that is no numeric literal is NaN.
StringToNumber(s) ==
  CASE s = "0" -> Num(0)
    [] s = "1" -> Num(1)
    [] s = "2" -> Num(2)
    [] s = "2001" -> Num(2001)
    [] s = "1.5" -> Frac(1)
    [] s = "0x2" -> Num(2)
    [] s = "" -> Num(0)
    [] OTHER -> NaN

\* parseFloat(s) for the same strings: the longest decimal prefix, so "0x2"
\* is 0 and the empty string is NaN.
StringToFloat(s) ==
  CASE s = "0" -> Num(0)
    [] s = "1" -> Num(1)
    [] s = "2" -> Num(2)
    [] s = "2001" -> Num(2001)
    [] s = "1.5" -> Frac(1)
    [] s = "0x2" -> Num(0)
    [] OTHER -> NaN

\* ToNumber, as isNaN(), the comparisons and % apply it to their operand.
ToNumber(value) ==
  CASE value.type = "number" -> value
    [] value.type = "string" -> StringToNumber(value.val)
    [] value.type = "null" -> Num(0)
    [] OTHER -> NaN

parseFloat(value) ==
  CASE value.type = "number" -> value
    [] value.type = "string" -> StringToFloat(value.val)
    [] OTHER -> NaN

isNaN(value) == ToNumber(value) = NaN

\* `x % 1 !== 0`: true of NaN as of every number that is no integer.
hasDecimals(value) == "val" \notin DOMAIN ToNumber(value)

\* `x > n` and `x < n`; every comparison with NaN is false.
greaterThan(value, n) ==
  CASE "val" \in DOMAIN ToNumber(value) -> ToNumber(value).val > n
    [] "floor" \in DOMAIN ToNumber(value) -> ToNumber(value).floor >= n
    [] OTHER -> FALSE

lessThan(value, n) ==
  CASE "val" \in DOMAIN ToNumber(value) -> ToNumber(value).val < n
    [] "floor" \in DOMAIN ToNumber(value) -> ToNumber(value).floor < n
    [] OTHER -> FALSE

\* What a middleware leaves: the request, and the status of the response it
\* sent, or NoResponse when it called next().
NoResponse == 0
next(req) == [req |-> req, status |-> NoResponse]
responds(req, status) == [req |-> req, status |-> status]

\* The validation without its two tests against GRID_MAX and GRID_MIN.
validateWidthAndHeight_Unbounded(req, width, height) ==
  IF isNil(width) \/ isNil(height) THEN responds(req, BAD_REQUEST)
  ELSE IF isNaN(width) \/ isNaN(height) THEN responds(req, BAD_REQUEST)
  ELSE IF hasDecimals(parseFloat(width)) \/ hasDecimals(parseFloat(height))
       THEN responds(req, BAD_REQUEST)
  ELSE next([req EXCEPT !.width = parseFloat(width),
                        !.height = parseFloat(height)])

\* validateWidthAndHeightRequirements, after `if (isNil(height)) height = width`
validateWidthAndHeight(req, width, height) ==
  IF isNil(width) \/ isNil(height) THEN responds(req, BAD_REQUEST)
  ELSE IF isNaN(width) \/ isNaN(height) THEN responds(req, BAD_REQUEST)
  ELSE IF hasDecimals(parseFloat(width)) \/ hasDecimals(parseFloat(height))
       THEN responds(req, BAD_REQUEST)
  ELSE IF greaterThan(parseFloat(width), GRID_MAX)
            \/ greaterThan(parseFloat(height), GRID_MAX)
       THEN responds(req, FORBIDDEN)
  ELSE IF lessThan(parseFloat(width), GRID_MIN)
            \/ lessThan(parseFloat(height), GRID_MIN)
       THEN responds(req, BAD_REQUEST)
  ELSE next([req EXCEPT !.width = parseFloat(width),
                        !.height = parseFloat(height)])

validateWidthAndHeightRequirements(req) ==
  validateWidthAndHeight(req, req.width,
                         IF isNil(req.height) THEN req.width ELSE req.height)

validateSquareRequirements(req) ==
  IF isNil(req.square) THEN next(req)
  ELSE IF isNaN(req.square) THEN responds(req, BAD_REQUEST)
  ELSE IF ~isNaN(parseFloat(req.square))
            /\ lessThan(parseFloat(req.square), SQUARE_MIN)
       THEN responds(req, BAD_REQUEST)
  ELSE IF hasDecimals(parseFloat(req.square)) THEN responds(req, BAD_REQUEST)
  ELSE next([req EXCEPT !.square = parseFloat(req.square)])

validateAmountRequirements(req) ==
  IF isNil(req.amount) THEN next(req)
  ELSE IF lessThan(req.amount, AMOUNT_MIN) \/ greaterThan(req.amount, AMOUNT_MAX)
       THEN responds(req, BAD_REQUEST)
  ELSE IF hasDecimals(req.amount) THEN responds(req, BAD_REQUEST)
  ELSE IF ~isNil(req.square) THEN responds(req, BAD_REQUEST)
  ELSE next([req EXCEPT !.amount = parseFloat(req.amount)])

\* A listing step that calls next() after its res.json.
buildImageListingIfRequired_Continuing(req) == next(req)

\* buildImageListingIfRequired: with an amount the listing is the response.
buildImageListingIfRequired(req) ==
  IF isNil(req.amount) THEN next(req) ELSE responds(req, OK)

\* getRandomNum(min, max), getRandomWord() and the quote drawn, as one draw
\* of a request: [width, height, square, word, quote].
generateRandomProperties(req, random) ==
  next([req EXCEPT
          !.width = Num(random.width),
          !.height = Num(random.height),
          !.square = IF isNil(@) THEN Num(random.square) ELSE @,
          !.text = IF isNil(@) \/ @ = Str("") THEN Str(random.word) ELSE @])

generateInspirationalQuote(req, random) ==
  IF ~isNil(req.text) THEN responds(req, BAD_REQUEST)
  ELSE next([req EXCEPT !.text = Str(random.quote)])

\* The middleware of the three imageRouter.get routes before
\* saveAllImageStats.
SIZE_ROUTE == "/:width/:height"
INSPIRATION_ROUTE == "/:width/:height/inspiration"
RANDOM_ROUTE == "/"

middleware(route) ==
  CASE route = SIZE_ROUTE ->
         << "validateWidthAndHeightRequirements", "validateSquareRequirements" >>
    [] route = INSPIRATION_ROUTE ->
         << "validateWidthAndHeightRequirements", "validateSquareRequirements",
            "generateInspirationalQuote" >>
    [] route = RANDOM_ROUTE ->
         << "validateSquareRequirements", "validateAmountRequirements",
            "buildImageListingIfRequired", "generateRandomProperties" >>

handle(step, req, random) ==
  CASE step = "validateWidthAndHeightRequirements" ->
         validateWidthAndHeightRequirements(req)
    [] step = "validateSquareRequirements" -> validateSquareRequirements(req)
    [] step = "validateAmountRequirements" -> validateAmountRequirements(req)
    [] step = "buildImageListingIfRequired" -> buildImageListingIfRequired(req)
    [] step = "generateRandomProperties" -> generateRandomProperties(req, random)
    [] step = "generateInspirationalQuote" -> generateInspirationalQuote(req, random)

\* The middleware one after the other, up to the first that responds.
RECURSIVE through(_, _, _)
through(sofar, steps, random) ==
  IF steps = <<>> \/ sofar.status # NoResponse THEN sofar
  ELSE through(handle(Head(steps), sofar.req, random), Tail(steps), random)

\* What reaches saveAllImageStats of a request, if anything does.
arrives(raw, random) == through(next(raw), middleware(raw.route), random)

\* req.params and req.query as saveAllImageStats reads them.
toRequest(req) ==
  Request(req.width.val, req.height.val, req.square, req.text, req.referer)

Raw(route, width, height, square, amount, text, referer) ==
  [route |-> route, width |-> width, height |-> height, square |-> square,
   amount |-> amount, text |-> text, referer |-> referer]

\* The requests of the model: on each route some that pass and one for each
\* way of being turned down.
RawRequests ==
  { Raw(SIZE_ROUTE, Str("1"), Str("1"), Undefined, Undefined, Str("a"), Str("x")),
    Raw(SIZE_ROUTE, Str("2"), Undefined, Str("1"), Undefined, Undefined, Undefined),
    Raw(SIZE_ROUTE, Str("abc"), Str("1"), Undefined, Undefined, Undefined, Undefined),
    Raw(SIZE_ROUTE, Str("1"), Str("1.5"), Undefined, Undefined, Undefined, Undefined),
    Raw(SIZE_ROUTE, Str("2001"), Str("1"), Undefined, Undefined, Undefined, Undefined),
    Raw(SIZE_ROUTE, Str("1"), Str("0"), Undefined, Undefined, Undefined, Undefined),
    Raw(SIZE_ROUTE, Str("0x2"), Undefined, Undefined, Undefined, Undefined, Undefined),
    Raw(SIZE_ROUTE, Str("1"), Str("1"), Str("abc"), Undefined, Undefined, Undefined),
    Raw(SIZE_ROUTE, Str("1"), Str("1"), Str("0"), Undefined, Undefined, Undefined),
    Raw(SIZE_ROUTE, Str("1"), Str("1"), Str("1.5"), Undefined, Undefined, Undefined),
    Raw(SIZE_ROUTE, Str("1"), Str("1"), Str(""), Undefined, Undefined, Undefined),
    Raw(INSPIRATION_ROUTE, Str("1"), Str("1"), Undefined, Undefined, Undefined, Undefined),
    Raw(INSPIRATION_ROUTE, Str("1"), Str("1"), Undefined, Undefined, Str("a"), Undefined),
    Raw(INSPIRATION_ROUTE, Str("1"), Str("abc"), Undefined, Undefined, Undefined, Undefined),
    Raw(RANDOM_ROUTE, Undefined, Undefined, Undefined, Undefined, Undefined, Undefined),
    Raw(RANDOM_ROUTE, Undefined, Undefined, Str("0"), Undefined, Undefined, Undefined),
    Raw(RANDOM_ROUTE, Undefined, Undefined, Undefined, Str("2"), Undefined, Undefined),
    Raw(RANDOM_ROUTE, Undefined, Undefined, Undefined, Str("2"), Str("a"), Str("x")),
    Raw(RANDOM_ROUTE, Undefined, Undefined, Undefined, Str("1"), Undefined, Undefined),
    Raw(RANDOM_ROUTE, Undefined, Undefined, Str("1"), Str("2"), Undefined, Undefined) }

\* The draws of the model: the largest width with the smallest height.
RandomDraws ==
  { [width |-> GRID_MAX, height |-> GRID_MIN, square |-> SQUARE_MIN,
     word |-> "boom", quote |-> "Turn your boom into wisdom."] }

(***************************************************************************)
(* Actions.                                                                *)
(***************************************************************************)
\* new StateManagement(location, persistance) on an engine, before the first
\* request; the location holds no file yet.
InitWith(sort, persistance) ==
  /\ engine = sort
  /\ filePersistance = persistance
  /\ localPersistance = <<>>
  /\ files = <<>>
  /\ now = 0
  /\ requests = 0
  /\ popped = nothingPopped
  /\ inserted = noHistory
  /\ sinceAbsent = noHistory
  /\ inFlight = 0
  /\ delivered = 0

InitOn(sort) == InitWith(sort, FILE_PERSISTANCE)

\* The clock readings a handler that starts now can get: Date.now() never
\* runs backwards, and the model lets at most one tick pass between handlers.
Readings(maxTime) == {t \in {now, now + 1} : t <= maxTime}

\* Date.now() and new Date() at a tick.  A tick of the model lasts as long
\* as one step of the windows of sendSecondHits, so that a hit leaves a
\* window with every tick that passes.
DateNow(tick) == tick * WindowStep

\* The store a handler leaves behind.
Leaves(st) ==
  /\ localPersistance' = st.local
  /\ files' = st.files

Saves(saved) ==
  /\ Leaves(saved.st)
  /\ popped' = poppedBy(saved)
  /\ inserted' = recorded(inserted, saved.added)
  /\ sinceAbsent' = forgotten(recorded(sinceAbsent, saved.added), poppedBy(saved))

\* The next() that ends saveAllImageStats starts sendImagerModule, which
\* runs up to its first await; a throw of saveAllImageStats ends the
\* request instead.
Continues(saved) ==
  /\ inFlight' = IF saved.threw THEN inFlight ELSE inFlight + 1
  /\ delivered' = delivered

\* A GET on one of the image routes that reaches saveAllImageStats.  The
\* number of requests of a behaviour is capped at MaxRequests.
SaveAllImageStats(reqs, maxTime) ==
  \E req \in reqs, t \in Readings(maxTime) :
    /\ requests < MaxRequests
    /\ requests' = requests + 1
    /\ now' = t
    /\ Saves(saveAllImageStats(Store, req, DateNow(t)))
    /\ Continues(saveAllImageStats(Store, req, DateNow(t)))
    /\ UNCHANGED <<engine, filePersistance>>

\* GET /stats/texts/recent, /stats/paths/recent, /stats/sizes/recent
SendRecent ==
  \E name \in RecencyNames :
    /\ Leaves(sendRecent(Store, name).st)
    /\ UNCHANGED <<engine, filePersistance, now, requests, popped, inserted,
                   sinceAbsent, inFlight, delivered>>

\* GET /stats/sizes/top, /stats/referrers/top
SendTop ==
  \E name \in FrequencyNames :
    /\ Leaves(sendTop(Store, name).st)
    /\ UNCHANGED <<engine, filePersistance, now, requests, popped, inserted,
                   sinceAbsent, inFlight, delivered>>

\* GET /stats/hits; the clock may advance between its two readings.
SendSecondHits(maxTime) ==
  \E first \in Readings(maxTime), skew \in 0..MaxSkew :
    /\ first + skew <= maxTime
    /\ now' = first + skew
    /\ Leaves(sendSecondHits(Store, DateNow(first), DateNow(first + skew)).st)
    /\ UNCHANGED <<engine, filePersistance, requests, popped, inserted,
                   sinceAbsent, inFlight, delivered>>

\* DELETE /stats
ClearAllStats ==
  /\ Leaves(clearAllStats(Store))
  /\ popped' = nothingPopped
  /\ inserted' = noHistory
  /\ sinceAbsent' = noHistory
  /\ UNCHANGED <<engine, filePersistance, now, requests, inFlight, delivered>>

\* The process ends and a new one starts: a new StateManagement over the
\* same location.  What was in flight is lost with the process, the files
\* stay; without files the collections start again from nothing.
restarted(st) == [local |-> <<>>, files |-> st.files]

Restart ==
  /\ Leaves(restarted(Store))
  /\ inFlight' = 0
  /\ popped' = IF filePersistance THEN popped ELSE nothingPopped
  /\ inserted' = IF filePersistance THEN inserted ELSE noHistory
  /\ sinceAbsent' = IF filePersistance THEN sinceAbsent ELSE noHistory
  /\ UNCHANGED <<engine, filePersistance, now, requests, delivered>>

Next ==
  \/ SaveAllImageStats(Requests, MaxTime)
  \/ SendRecent
  \/ SendTop
  \/ SendSecondHits(MaxTime)
  \/ ClearAllStats

Init == InitOn("timsort")

Spec == Init /\ [][Next]_vars

\* The same server on the older engine.
InitLegacy == InitOn("insertion")

SpecLegacy == InitLegacy /\ [][Next]_vars

\* The server with constants.FILE_PERSISTANCE set to true, and its restarts.
InitDurable == InitWith("timsort", TRUE)

NextDurable ==
  \/ requests < MaxDurableRequests /\ SaveAllImageStats(Requests, MaxDurableTime)
  \/ SendRecent
  \/ SendTop
  \/ SendSecondHits(MaxDurableTime)
  \/ ClearAllStats
  \/ Restart

SpecDurable == InitDurable /\ [][NextDurable]_vars

\* An image request whose first write, that of the hit, fails: the throw of
\* fs.writeFileSync ends addArrayEntry and saveAllImageStats, next() is not
\* called and the request is answered with an error.
SaveAllImageStatsFails(reqs, maxTime) ==
  \E req \in reqs, t \in Readings(maxTime), failure \in WriteFailures :
    /\ filePersistance
    /\ requests < MaxRequests
    /\ requests' = requests + 1
    /\ now' = t
    /\ canAdd(Str(pathOf(req))) = "true"
    /\ Leaves(writeArrayEntriesFails(Store, HITS, failure))
    /\ UNCHANGED <<engine, filePersistance, popped, inserted, sinceAbsent,
                   inFlight, delivered>>

\* An image request or a GET /stats/hits that finds hits.json truncated:
\* JSON.parse throws in the first getArrayEntries and nothing is written.
ReadFails ==
  /\ ~parses(Store, HITS)
  /\ UNCHANGED vars

\* The server that persists to files, on a disk whose writes can fail.
NextFailing ==
  \/ /\ parses(Store, HITS)
     /\ requests < MaxDurableRequests
     /\ SaveAllImageStats(Requests, MaxDurableTime)
  \/ /\ parses(Store, HITS)
     /\ requests < MaxDurableRequests
     /\ SaveAllImageStatsFails(Requests, MaxDurableTime)
  \/ ReadFails
  \/ SendRecent
  \/ SendTop
  \/ parses(Store, HITS) /\ SendSecondHits(MaxDurableTime)
  \/ ClearAllStats
  \/ Restart

SpecFailing == InitDurable /\ [][NextFailing]_vars

\* A GET on an image route: the middleware of the route, and
\* saveAllImageStats if every one of them called next().  A request that was
\* answered before changes nothing.
GetImage(raws, draws, maxTime) ==
  \E raw \in raws, random \in draws :
    \/ /\ arrives(raw, random).status = NoResponse
       /\ SaveAllImageStats({toRequest(arrives(raw, random).req)}, maxTime)
    \/ /\ arrives(raw, random).status # NoResponse
       /\ UNCHANGED vars

\* One GET on an image route that starts at Date.now() = t: the status its
\* middleware answered with (NoResponse when saveAllImageStats was reached
\* and called next() for sendImagerModule) and the store it leaves.
getImage(st, raw, random, t) ==
  IF arrives(raw, random).status = NoResponse
  THEN [status |-> NoResponse,
        st |-> saveAllImageStats(st, toRequest(arrives(raw, random).req), t).st]
  ELSE [status |-> arrives(raw, random).status, st |-> st]

\* The awaits of sendImagerModule end: the image was sent to the end, or
\* imager.sendImage or the stream failed.
SendImagerModule ==
  /\ inFlight > 0
  /\ inFlight' = inFlight - 1
  /\ \E sent \in BOOLEAN : delivered' = IF sent THEN delivered + 1 ELSE delivered
  /\ UNCHANGED <<engine, filePersistance, localPersistance, files, now,
                 requests, popped, inserted, sinceAbsent>>

\* The image routes from the request to the end of the delivery, with the
\* /stats routes.
NextRoutes ==
  \/ requests < MaxRouteRequests /\ GetImage(RawRequests, RandomDraws, MaxRouteTime)
  \/ SendImagerModule
  \/ SendRecent
  \/ SendTop
  \/ SendSecondHits(MaxRouteTime)
  \/ ClearAllStats

SpecRoutes == Init /\ [][NextRoutes]_vars

(***************************************************************************)
(* Properties.                                                             *)
(***************************************************************************)
\* The records the store holds under a name.
held(name) == content(Store, name)

Range(seq) == {seq[i] : i \in 1..Len(seq)}

\* C1: each of the five bounded collections holds at most PersistAmount
\* records once a request has been recorded, and so each recent and each top
\* query sends at most PersistAmount items.
C1_AtMostPersistAmount ==
  \A name \in BoundedNames :
    /\ Len(held(name)) <= PersistAmount
    /\ name \in RecencyNames => Len(sendRecent(Store, name).value) <= PersistAmount
    /\ name \in FrequencyNames => Len(sendTop(Store, name).value) <= PersistAmount

\* A full collection whose last request popped a record.
C1_Witness ==
  \E name \in BoundedNames :
    Len(held(name)) = PersistAmount /\ popped[name] # <<>>

\* C2: no two records of a bounded (merging) collection hold equal entries.
C2_NoEqualEntries ==
  \A name \in BoundedNames :
    \A i, j \in 1..Len(held(name)) :
      held(name)[i].entry = held(name)[j].entry => i = j

\* Two records in a collection, one of them recorded twice.
C2_Witness ==
  \E name \in BoundedNames :
    /\ Len(held(name)) >= 2
    /\ \E i \in 1..Len(held(name)) : held(name)[i].count >= 2

\* C3 as claimed: the count of every stored record is the number of times
\* its entry was recorded into the collection.
C3_CountIsTimesRecorded ==
  \A name \in BoundedNames :
    \A r \in Range(held(name)) :
      r.count = countOf(inserted[name], JSONstringify(r.entry))

\* C3 amended: the count of every stored record is the number of times its
\* entry was recorded since it was last absent from the collection, and
\* every entry recorded since then is stored.
C3_CountIsTimesRecordedSinceAbsent ==
  \A name \in BoundedNames :
    /\ \A r \in Range(held(name)) :
         r.count = countOf(sinceAbsent[name], JSONstringify(r.entry))
    /\ \A key \in DOMAIN sinceAbsent[name] :
         sinceAbsent[name][key] > 0 =>
           \E r \in Range(held(name)) : JSONstringify(r.entry) = key

\* A record that was recorded twice, in a collection that has evicted
\* another entry.
C3_Witness ==
  \E name \in BoundedNames :
    /\ \E r \in Range(held(name)) : r.count >= 2
    /\ \E key \in DOMAIN inserted[name] :
         inserted[name][key] > 0 /\ sinceAbsent[name][key] = 0

\* C4: when a request pushes paths, texts or sizes over capacity, one record
\* is popped and no record that stays has an older time than it.
C4_PopsOldest ==
  \A name \in RecencyNames :
    popped[name] # <<>> =>
      /\ Len(popped[name]) = 1
      /\ Len(held(name)) = PersistAmount
      /\ \A r \in Range(held(name)) : r.time >= popped[name][1].time

\* Entries recorded at increasing times: the popped one is strictly older
\* than every record that stays.
C4_Witness ==
  \E name \in RecencyNames :
    /\ popped[name] # <<>>
    /\ Len(held(name)) = PersistAmount
    /\ \A r \in Range(held(name)) : r.time > popped[name][1].time

\* C5: when a request pushes sizes-all or references over capacity, the
\* record popped has the smallest count, and the oldest time among the
\* records of that count; a record counted more than another is not popped.
C5_PopsLeastCounted ==
  \A name \in FrequencyNames :
    popped[name] # <<>> =>
      /\ Len(popped[name]) = 1
      /\ Len(held(name)) = PersistAmount
      /\ \A r \in Range(held(name)) :
           \/ r.count > popped[name][1].count
           \/ r.count = popped[name][1].count /\ r.time >= popped[name][1].time

\* Counts [1, 1, 2]: the older of the two records counted once is popped.
C5_Witness ==
  \E name \in FrequencyNames :
    /\ popped[name] # <<>>
    /\ \E r \in Range(held(name)) : r.count > popped[name][1].count
    /\ \E r \in Range(held(name)) :
         r.count = popped[name][1].count /\ r.time > popped[name][1].time

\* The time of the record that holds an entry.
timeOf(name, entry) ==
  (CHOOSE r \in Range(held(name)) : r.entry = entry).time

C7_TopMostCountedFirst ==
  /\ \A i, j \in 1..Len(topSizesBody(sendTop(Store, SIZES_ALL).value)) :
       i < j => topSizesBody(sendTop(Store, SIZES_ALL).value)[i].n
                  >= topSizesBody(sendTop(Store, SIZES_ALL).value)[j].n
  /\ \A i, j \in 1..Len(topReferencesBody(sendTop(Store, REFERENCES).value)) :
       i < j => topReferencesBody(sendTop(Store, REFERENCES).value)[i].n
                  >= topReferencesBody(sendTop(Store, REFERENCES).value)[j].n

\* The hits held with a time in (at - width, at].
hitsIn(at, width) ==
  {i \in 1..Len(held(HITS)) :
     at - width < held(HITS)[i].time /\ held(HITS)[i].time <= at}

\* The evaluations of sendSecondHits that can start in this state: its two
\* clock readings.
Evaluations ==
  {<<DateNow(first), DateNow(first + skew)>> :
     first \in Readings(MaxTime), skew \in 0..MaxSkew}

\* C8 as claimed: a sendSecondHits that starts at `at` sends the numbers of
\* hits with a time in (at - 5, at], (at - 10, at] and (at - 15, at].
C8_CountsWindows ==
  \A e \in Evaluations :
    /\ sendSecondHits(Store, e[1], e[2]).value[1].count
         = Cardinality(hitsIn(e[1], WindowStep))
    /\ sendSecondHits(Store, e[1], e[2]).value[2].count
         = Cardinality(hitsIn(e[1], 2 * WindowStep))
    /\ sendSecondHits(Store, e[1], e[2]).value[3].count
         = Cardinality(hitsIn(e[1], 3 * WindowStep))

occurrences(seq, x) == Cardinality({i \in 1..Len(seq) : seq[i] = x})

\* C9 as claimed: a sendSecondHits that starts at `at` leaves in hits exactly
\* the records it found there with a time in (at - 15, at].
C9_KeepsFifteenSeconds ==
  \A e \in Evaluations :
    \A r \in Range(held(HITS)) \cup
             Range(content(sendSecondHits(Store, e[1], e[2]).st, HITS)) :
      occurrences(content(sendSecondHits(Store, e[1], e[2]).st, HITS), r)
        = IF e[1] - 3 * WindowStep < r.time /\ r.time <= e[1]
          THEN occurrences(held(HITS), r)
          ELSE 0

\* Every collection of a store is there and empty, every list query on it
\* sends an empty array and sendSecondHits three counts of 0.
allEmpty(st) ==
  /\ \A name \in AllNames : name \in DOMAIN st.local /\ content(st, name) = <<>>
  /\ \A name \in RecencyNames : sendRecent(st, name).value = <<>>
  /\ topSizesBody(sendTop(st, SIZES_ALL).value) = <<>>
  /\ topReferencesBody(sendTop(st, REFERENCES).value) = <<>>
  /\ \A e \in Evaluations :
       \A i \in 1..3 : sendSecondHits(st, e[1], e[2]).value[i].count = 0

\* C10: from every reachable state clearAllStats leaves all six collections
\* empty, and so does a second clearAllStats after it, which changes nothing.
C10_ClearEmptiesAll ==
  /\ allEmpty(clearAllStats(Store))
  /\ clearAllStats(clearAllStats(Store)) = clearAllStats(Store)

\* Requests were recorded and then cleared.
C10_Witness ==
  /\ requests > 0
  /\ \A name \in AllNames : name \in DOMAIN localPersistance /\ held(name) = <<>>

\* C11: with file persistence, a new StateManagement over the same location
\* answers every query as the one before the restart does.
C11_RestartAnswersTheSame ==
  /\ \A name \in RecencyNames :
       sendRecent(restarted(Store), name).value = sendRecent(Store, name).value
  /\ \A name \in FrequencyNames :
       sendTop(restarted(Store), name).value = sendTop(Store, name).value
  /\ \A e \in Evaluations :
       sendSecondHits(restarted(Store), e[1], e[2]).value
         = sendSecondHits(Store, e[1], e[2]).value

\* After a restart: nothing in memory, records in the files.
C11_Witness ==
  /\ filePersistance
  /\ localPersistance = <<>>
  /\ \E name \in BoundedNames :
       name \in DOMAIN files /\ Len(held(name)) = PersistAmount
  /\ Len(held(HITS)) > 0

\* C12: with file persistence, the file of every collection this
\* StateManagement has written holds the records of its localPersistance,
\* in their order.
C12_FileHoldsWhatMemoryHolds ==
  \A name \in DOMAIN localPersistance :
    /\ name \in DOMAIN files
    /\ files[name] = JSONstringifyEntries(localPersistance[name])
    /\ JSONparseEntries(files[name]) = localPersistance[name]

\* Written by a record that evicted, in a store that has restarted and has
\* not written every collection since.
C12_Witness ==
  /\ filePersistance
  /\ \E name \in BoundedNames :
       /\ name \in DOMAIN localPersistance
       /\ popped[name] # <<>>
       /\ Len(localPersistance[name]) = PersistAmount
  /\ REFERENCES \notin DOMAIN localPersistance
  /\ REFERENCES \in DOMAIN files

\* The values the claim calls empty.
EmptyValues == {Null, Undefined, Str(""), Arr(<<>>)}

\* C13 as claimed: addArrayEntry and addArrayCountEntry with a null, an
\* undefined, an empty string or an empty array throw nothing and leave the
\* store, memory and files, as it was.
C13_EmptyValuesAreIgnored ==
  \A name \in AllNames, entry \in EmptyValues, byCount \in BOOLEAN :
    /\ ~perform(Store, Call(name, entry, Num(PersistAmount), TRUE, byCount),
                DateNow(now)).threw
    /\ perform(Store, Call(name, entry, Num(PersistAmount), TRUE, byCount),
               DateNow(now)).st = Store

\* C14: with image requests in flight at the same time, every step leaves
\* each bounded collection as some order of whole operations would: within
\* its capacity, one record per entry, each count the number of recordings
\* since the entry was last absent, and a record whose count the step has
\* changed carries the time the step read from the clock.
C14_MutationsAreSerialized ==
  [][\A name \in BoundedNames :
       /\ Len(held(name)') <= PersistAmount
       /\ \A i, j \in 1..Len(held(name)') :
            held(name)'[i].entry = held(name)'[j].entry => i = j
       /\ \A r \in Range(held(name)') :
            r.count = countOf(sinceAbsent'[name], JSONstringify(r.entry))
       /\ \A r \in Range(held(name)), q \in Range(held(name)') :
            r.entry = q.entry /\ q.count # r.count =>
              q.count = r.count + 1 /\ q.time = DateNow(now')]_vars

\* Two requests in flight that were merged into one record, the second at a
\* later clock reading than the first.
C14_Witness ==
  /\ inFlight >= 2
  /\ \E r \in Range(held(PATHS)) : r.count >= 2 /\ r.time > 0

\* C15 as claimed: every record of hits is the hit of a request whose image
\* was sent to the end, or is still being sent.
C15_HitsAreDeliveries == Len(held(HITS)) <= delivered + inFlight

\* The decimal integers among the strings of the model.
DecimalIntegers == ("0" :> 0) @@ ("1" :> 1) @@ ("2" :> 2) @@ ("2001" :> 2001)

integerIn(value, least, most) ==
  /\ value.type = "string"
  /\ value.val \in DOMAIN DecimalIntegers
  /\ DecimalIntegers[value.val] \in least..most

\* What the claim has turned down: a width or height that is no integer of
\* [1, 2000], a square that is no integer from 1 up, a text on the
\* inspiration route.
malformed(raw) ==
  \/ /\ raw.route \in {SIZE_ROUTE, INSPIRATION_ROUTE}
     /\ \/ ~integerIn(raw.width, GRID_MIN, GRID_MAX)
        \/ ~isNil(raw.height) /\ ~integerIn(raw.height, GRID_MIN, GRID_MAX)
  \/ ~isNil(raw.square) /\ ~integerIn(raw.square, SQUARE_MIN, GRID_MAX + 1)
  \/ raw.route = INSPIRATION_ROUTE /\ ~isNil(raw.text)

\* C16: a malformed request is answered with a 4xx status by the middleware
\* before saveAllImageStats, which it never reaches, and every entry of
\* sizes and sizes-all has an integer w and an integer h of [1, 2000].
C16_RecordsOnlyValidatedRequests ==
  /\ \A raw \in RawRequests, random \in RandomDraws :
       malformed(raw) => arrives(raw, random).status \in 400..499
  /\ \A name \in {SIZES, SIZES_ALL} :
       \A r \in Range(held(name)) :
         /\ r.entry.w \in GRID_MIN..GRID_MAX
         /\ r.entry.h \in GRID_MIN..GRID_MAX

\* A size from the random route and a size from /img/2 recorded.
C16_Witness ==
  /\ \E r \in Range(held(SIZES)) : r.entry.w = GRID_MAX
  /\ \E r \in Range(held(SIZES_ALL)) : r.entry.w = 2 /\ r.entry.h = 2

\* C17: every stored record has a count of at least 1, and a step that
\* changes the record of an entry adds 1 to its count and does not take its
\* time back.
C17_CountsAndTimesGrow ==
  [][\A name \in AllNames :
       /\ \A q \in Range(held(name)') : q.count >= 1
       /\ name \in BoundedNames =>
            \A r \in Range(held(name)), q \in Range(held(name)') :
              r.entry = q.entry /\ q # r =>
                q.count = r.count + 1 /\ q.time >= r.time]_vars

\* A record merged twice, the last time after the clock has advanced.
C17_Witness ==
  \E name \in BoundedNames :
    \E r \in Range(held(name)) : r.count >= 3 /\ r.time > 0

\* C18 as claimed: with file persistence, also after a write that failed,
\* the file of every collection in localPersistance holds the records that
\* localPersistance holds.
C18_FailedWriteKeepsFileAndMemoryEqual ==
  \A name \in DOMAIN localPersistance :
    /\ name \in DOMAIN files
    /\ files[name] = JSONstringifyEntries(localPersistance[name])

\* The hits held with a time strictly between at - width and at, the
\* comparisons of sendSecondHits.
hitsWithin(at, width) ==
  {i \in 1..Len(held(HITS)) :
     at - width < held(HITS)[i].time /\ held(HITS)[i].time < at}

\* C19 as claimed: whatever the clock does while sendSecondHits runs, one
\* of its readings is the end of all three windows, which start exactly 5,
\* 10 and 15 seconds before that reading.
C19_WindowsOfOneInstant ==
  \A e \in Evaluations :
    \E instant \in {e[1], e[2]} :
      \A k \in 1..3 :
        sendSecondHits(Store, e[1], e[2]).value[k].count
          = Cardinality(hitsWithin(instant, k * WindowStep))

\* C20 as claimed: a record operation with capacity k on a collection that
\* holds any number of records, once it has added its entry, leaves at most
\* k records.
C20_EvictsDownToCapacity ==
  \A name \in BoundedNames, entry \in EntryValues,
     k \in 1..PersistAmount, byCount \in BOOLEAN :
    canAdd(entry) = "true" =>
    Len(content(perform(Store, Call(name, entry, Num(k), TRUE, byCount),
                        DateNow(now)).st, name)) <= k

\* C21: an image request that reaches saveAllImageStats leaves in hits the
\* records that were there, none merged and none evicted, and after them one
\* new record with count 1 and the time of the request.
C21_EveryRequestIsOneHit ==
  [][requests' = requests + 1 =>
       /\ Len(held(HITS)') = Len(held(HITS)) + 1
       /\ SubSeq(held(HITS)', 1, Len(held(HITS))) = held(HITS)
       /\ held(HITS)'[Len(held(HITS)')].count = 1
       /\ held(HITS)'[Len(held(HITS)')].time = DateNow(now')]_vars

\* More hits than any bounded collection may hold, two of them of one path.
C21_Witness ==
  /\ Len(held(HITS)) > PersistAmount
  /\ \E i, j \in 1..Len(held(HITS)) :
       i < j /\ held(HITS)[i].entry = held(HITS)[j].entry

\* The entries of the records of a collection.
entriesOf(st, name) == {r.entry : r \in Range(content(st, name))}

\* The recordings saveAllImageStats can make into a bounded collection.
Recordings ==
  {call \in UNION {Range(calls(req)) : req \in Requests} :
     call.name \in BoundedNames /\ canAdd(call.entry) = "true"}

\* What a recording has left (done) against the store it started from.
removesNothingElse(call, done) ==
  /\ \A other \in AllNames \ {call.name} :
       content(done.st, other) = held(other)
  /\ \A e \in entriesOf(Store, call.name) \ entriesOf(done.st, call.name) :
       /\ Len(held(call.name)) >= PersistAmount
       /\ done.popped # <<>>
       /\ done.popped[1].entry = e

\* C22: a recording into a collection leaves every other collection as it
\* was, and an entry that has lost its record by it is the one content.pop()
\* returned from a collection at capacity: below capacity every entry keeps
\* a record.
C22_RecordingRemovesNothingElse ==
  \A call \in Recordings :
    \A done \in {perform(Store, call, DateNow(now))} :
      removesNothingElse(call, done)

\* A recording of a new entry into a collection below capacity that holds a
\* record, while another collection holds records too.
C22_Witness ==
  \E call \in Recordings :
    /\ Len(held(call.name)) = PersistAmount - 1
    /\ held(call.name) # <<>>
    /\ call.entry \notin entriesOf(Store, call.name)
    /\ Len(content(perform(Store, call, DateNow(now)).st, call.name))
         = PersistAmount
    /\ \E other \in BoundedNames \ {call.name} : held(other) # <<>>

\* A request on the random route with an amount that is an integer of
\* [AMOUNT_MIN, AMOUNT_MAX] and nothing that validation turns down.
listingAsked(raw) ==
  /\ raw.route = RANDOM_ROUTE
  /\ ~isNil(raw.amount)
  /\ integerIn(raw.amount, AMOUNT_MIN, AMOUNT_MAX)
  /\ isNil(raw.square)

\* C23: a request on the random route with a valid amount is answered with
\* the listing (status 200) by the middleware before saveAllImageStats, which
\* is not reached, and the store is left as it was.
C23_ListingRecordsNothing ==
  \A raw \in RawRequests, random \in RandomDraws :
    listingAsked(raw) =>
      /\ arrives(raw, random).status = OK
      /\ getImage(Store, raw, random, DateNow(now)).status = OK
      /\ getImage(Store, raw, random, DateNow(now)).st = Store

\* A listing asked of a server that holds records in all six collections.
C23_Witness ==
  /\ \E raw \in RawRequests, random \in RandomDraws :
       /\ listingAsked(raw)
       /\ ~isNil(raw.text)
       /\ getImage(Store, raw, random, DateNow(now)).status = OK
  /\ \A name \in AllNames : held(name) # <<>>

\* Two arrays of the same records, each as many times, in any order.
sameRecords(a, b) ==
  /\ Len(a) = Len(b)
  /\ \A r \in Range(a) \cup Range(b) : occurrences(a, r) = occurrences(b, r)

\* C24: a step that records no request and clears nothing, which is a
\* recent query, a top query or a sendSecondHits, leaves in every bounded
\* collection the records it held and leaves their files alone; of hits it
\* can only drop records.
C24_ListQueriesKeepAllRecords ==
  [][requests' = requests /\ inserted' = inserted =>
       /\ \A name \in BoundedNames :
            held(name)' = held(name) \/ sameRecords(held(name)', held(name))
       /\ \A name \in DOMAIN files \ {HITS} :
            name \in DOMAIN files' /\ files'[name] = files[name]
       /\ \/ held(HITS)' = held(HITS)
          \/ \A r \in Range(held(HITS)') :
               occurrences(held(HITS)', r) <= occurrences(held(HITS), r)]_vars

\* Every bounded collection is full after queries, one of which has dropped
\* hits: a path was recorded more often than there are hits left.
C24_Witness ==
  /\ \A name \in BoundedNames : Len(held(name)) = PersistAmount
  /\ \E r \in Range(held(PATHS)) : r.count > Len(held(HITS))

\* The evaluations of sendSecondHits that can start once evaluation e has
\* ended.
EvaluationsAfter(e) ==
  {<<e[2] + DateNow(later), e[2] + DateNow(later + skew)>> :
     later \in 0..MaxTime, skew \in 0..MaxSkew}

\* C25 as claimed: a sendSecondHits sends the same three counts whether or
\* not an earlier sendSecondHits has compacted hits before it.
C25_CompactionIsTransparent ==
  \A e \in Evaluations :
    \A f \in EvaluationsAfter(e) :
      sendSecondHits(sendSecondHits(Store, e[1], e[2]).st, f[1], f[2]).value
        = sendSecondHits(Store, f[1], f[2]).value

\* What a sendSecondHits has sent and left (done): counts that do not
\* decrease, the last one the length of hits.
nested(done) ==
  /\ done.value[1].count <= done.value[2].count
  /\ done.value[2].count <= done.value[3].count
  /\ done.value[3].count = Len(content(done.st, HITS))

\* C26: the three counts of a sendSecondHits do not decrease from "5s" to
\* "10s" to "15s", and the "15s" count is the number of records hits holds
\* when the call has ended.
C26_CountsAreNested ==
  \A e \in Evaluations :
    \A done \in {sendSecondHits(Store, e[1], e[2])} : nested(done)

\* A sendSecondHits whose three counts differ and which drops a hit.
C26_Witness ==
  \E e \in Evaluations :
    /\ sendSecondHits(Store, e[1], e[2]).value[1].count
         < sendSecondHits(Store, e[1], e[2]).value[2].count
    /\ sendSecondHits(Store, e[1], e[2]).value[2].count
         < sendSecondHits(Store, e[1], e[2]).value[3].count
    /\ sendSecondHits(Store, e[1], e[2]).value[3].count < Len(held(HITS))

\* The recordings of an entry that has no record into a sizes-all or
\* references that is at capacity with every count at 2 or more.
Latecomers ==
  {call \in Recordings :
     /\ call.name \in FrequencyNames
     /\ Len(held(call.name)) = PersistAmount
     /\ \A r \in Range(held(call.name)) : r.count >= 2
     /\ matching(held(call.name), call.entry) = {}}

\* A store in which the collection of the call holds the records of this
\* state and none for the entry of the call.
turnedAway(call, st) ==
  /\ sameRecords(content(st, call.name), held(call.name))
  /\ matching(content(st, call.name), call.entry) = {}

\* C27: such a recording leaves the collection with the records it held, and
\* without a record for the entry it recorded.
C27_LatecomerIsEvicted ==
  \A call \in Latecomers :
    turnedAway(call, perform(Store, call, DateNow(now)).st)

\* sizes-all at capacity with every size recorded twice, and a third size to
\* record.
C27_Witness ==
  \E call \in Latecomers :
    /\ call.name = SIZES_ALL
    /\ call.entry.type = "object"
    /\ perform(Store, call, DateNow(now)).popped # <<>>

=============================================================================
